---- MODULE Spec2Model ----
(***************************************************************************)
(* Job lifecycle orchestrator of services/audio-analyzer/analyzer.py:     *)
(* the "Track" table (Store), the Redis list (Queue), and one or more     *)
(* AnalysisWorker processes, each with its own ProcessPoolExecutor.       *)
(*                                                                         *)
(* Time is discrete, one tick = one minute.  Instead of absolute          *)
(* timestamps the model keeps, per row, the minutes elapsed since         *)
(* "updatedAt" (saturating just above the stale window) and, per worker,  *)
(* the minutes elapsed since the batch was submitted (saturating at the   *)
(* batch timeout).                                                         *)
(***************************************************************************)
EXTENDS Integers, Sequences, FiniteSets, TLC

\* ---------------------------------------------------------------- bounds
MaxQueue == 2
MaxBatchLen == 50
MaxAbandoned == 1

Tracks == {"t1", "t2"}
Instances == {"w1", "w2"}

\* ------------------------------------------------- configuration (env)
\* The values are those of the checked configuration; every one of them is
\* read from the environment by the source (the defaults are in comments).
BATCH_SIZE == 2
\* default 10
NUM_WORKERS == 2
\* default 2
MAX_RETRIES == 2
\* default 3
STALE_PROCESSING_MINUTES == 1
\* default 10
BASE_TRACK_TIMEOUT == 60
\* seconds, default 120
MAX_TRACK_TIMEOUT == 90
\* seconds, default 600; as with the defaults, the deadline of a full batch
\* (180 s here, 1200 s there) is longer than the stale window.
MIN_BATCH_TIMEOUT == 300
\* seconds, the literal of max(300, ...)
SecondsPerTick == 60

\* Cadence literals of AnalysisWorker.start, scaled down (source: 10, 5, 50).
EMPTY_BEFORE_MAINTENANCE == 2
ERRORS_BEFORE_RECOVERY == 2
PERIODIC_CLEANUP_BATCHES == 2

NULL == "NULL"

\* A key that a queued JSON object does not have.
Missing == "<missing>"

\* The "filePath" column of a row.
FilePath(i) == IF i = "t1" THEN "a.flac" ELSE "b.flac"

\* A queued job: the JSON object {"trackId": ..., "filePath": ...}.
Job(id, path) == [trackId |-> id, filePath |-> path]
ErrAnalysis == "File not found"
ErrOversize == "File too large"
ErrMemory == "out of memory"
ErrBatchTimeout == "Batch timeout (file too large)"
ErrTrackTimeout == "Analysis timeout (file too large to process)"
ErrPool == "Error: BrokenProcessPool"

VARIABLES
    Track,      \* the "Track" table: id -> row
    queue,      \* the Redis list audio:analysis:queue (trackIds)
    worker,     \* AnalysisWorker processes: instance -> local state
    calc        \* one evaluation of a pure function: its inputs and its result

vars == <<Track, queue, worker, calc>>

Min(a, b) == IF a < b THEN a ELSE b
Max(a, b) == IF a > b THEN a ELSE b

\* ------------------------------------------------------------ timeouts
\* A deadline without the 300 second floor.
batch_timeout_unfloored(n, base, maxt) == Min(n * base, maxt * n)

batch_timeout_for(n, base, maxt) == Min(Max(MIN_BATCH_TIMEOUT, n * base), maxt * n)
batch_timeout(n) == batch_timeout_for(n, BASE_TRACK_TIMEOUT, MAX_TRACK_TIMEOUT)

AgeCap == STALE_PROCESSING_MINUTES + 1
ElapsedCap == (batch_timeout(BATCH_SIZE) + SecondsPerTick - 1) \div SecondsPerTick

\* ------------------------------------------------- Store row operations
NewTrack == [analysisStatus |-> "pending", analysisError |-> NULL,
             analysisRetryCount |-> 0, age |-> 0]

\* A reclaim that ignores the age of the row.
IsStale_any_age(t) == t.analysisStatus = "processing"

\* WHERE "analysisStatus" = 'processing' AND "updatedAt" < NOW() - INTERVAL
IsStale(t) == t.analysisStatus = "processing" /\ t.age > STALE_PROCESSING_MINUTES

\* A reclaim pass that also clears the retry count of the rows it resets.
cleanup_rows_resetting_count(T) ==
    [i \in Tracks |->
        IF IsStale(T[i])
        THEN [T[i] EXCEPT !.analysisStatus = "pending", !.analysisRetryCount = 0, !.age = 0]
        ELSE T[i]]

\* A reclaim pass that resets nothing.
cleanup_rows_nothing(T) == T

\* UPDATE "Track" SET "analysisStatus" = 'pending', "updatedAt" = NOW() WHERE ...
cleanup_rows(T) ==
    [i \in Tracks |->
        IF IsStale(T[i])
        THEN [T[i] EXCEPT !.analysisStatus = "pending", !.age = 0]
        ELSE T[i]]

\* A retry pass that also takes rows whose count has reached the ceiling.
IsRetryable_inclusive(t) == t.analysisStatus = "failed" /\ t.analysisRetryCount <= MAX_RETRIES

\* WHERE "analysisStatus" = 'failed' AND COALESCE("analysisRetryCount", 0) < %s
IsRetryable(t) == t.analysisStatus = "failed" /\ t.analysisRetryCount < MAX_RETRIES

\* A retry pass that leaves the error text in place.
retry_rows_keep_error(T) ==
    [i \in Tracks |->
        IF IsRetryable(T[i])
        THEN [T[i] EXCEPT !.analysisStatus = "pending", !.age = 0]
        ELSE T[i]]

retry_rows(T) ==
    [i \in Tracks |->
        IF IsRetryable(T[i])
        THEN [T[i] EXCEPT !.analysisStatus = "pending", !.analysisError = NULL, !.age = 0]
        ELSE T[i]]

\* A claim without the status guard.
IsClaimable_any_status(t) == TRUE

\* WHERE id = ANY(%s) AND "analysisStatus" = 'pending' RETURNING id
IsClaimable(t) == t.analysisStatus = "pending"

\* A job descriptor is the pair (trackId, filePath); t[0] is its id.
IdOf(t) == t[1]

Ids(s) == {IdOf(s[k]) : k \in DOMAIN s}

\* dict.get without its default: None for a key that is not there.
job_get_no_default(job, key, default) == job[key]

\* job.get(key, default)
job_get(job, key, default) == IF job[key] = Missing THEN default ELSE job[key]

\* (job["trackId"], job.get("filePath", ""))
descriptor_of(job) == <<job.trackId, job_get(job, "filePath", "")>>

valid_ids(T, ids) == {i \in ids : IsClaimable(T[i])}

claim_rows(T, ids) ==
    [i \in Tracks |->
        IF i \in valid_ids(T, ids)
        THEN [T[i] EXCEPT !.analysisStatus = "processing", !.age = 0]
        ELSE T[i]]

\* _save_results: UPDATE ... WHERE id = %s
save_results_row(t) ==
    [t EXCEPT !.analysisStatus = "completed", !.analysisError = NULL, !.age = 0]

\* A failure write that does not count the attempt.
save_failed_row_uncounted(t, error, permanent) ==
    IF permanent
    THEN [t EXCEPT !.analysisStatus = "skipped", !.analysisError = error,
                   !.analysisRetryCount = MAX_RETRIES, !.age = 0]
    ELSE [t EXCEPT !.analysisStatus = "failed", !.analysisError = error, !.age = 0]

\* _save_failed: UPDATE ... WHERE id = %s
save_failed_row(t, error, permanent) ==
    IF permanent
    THEN [t EXCEPT !.analysisStatus = "skipped", !.analysisError = error,
                   !.analysisRetryCount = MAX_RETRIES, !.age = 0]
    ELSE [t EXCEPT !.analysisStatus = "failed", !.analysisError = error,
                   !.analysisRetryCount = @ + 1, !.age = 0]

\* ------------------------------------------------------- worker state
\* AnalysisWorker.__init__; pc = "down" is a process that is not running.
\* zrun, zwait: tasks of a timed-out batch that the pool still executes or
\* still holds in its queue (a timeout cancels nothing).
\* in_txn: the connection (autocommit = False) has a transaction open.
\* empty_run, error_run: history kept for the properties, not program
\* state: how many iterations in a row returned has_work = False, and how
\* many in a row ended in the loop's "except Exception".
NewWorker == [pc |-> "down", tracks |-> <<>>, futures |-> <<>>, elapsed |-> 0,
              consecutive_empty |-> 0, batch_count |-> 0,
              broken |-> FALSE, zrun |-> 0, zwait |-> 0,
              in_txn |-> FALSE, empty_run |-> 0, error_run |-> 0]

\* No function evaluation is under way.
NoCalc == [op |-> "none"]

\* A row analysed by an earlier run.
DoneTrack == [NewTrack EXCEPT !.analysisStatus = "completed"]

\* The table holds one track waiting for analysis and one analysed earlier;
\* no worker process runs yet.
Init ==
    /\ Track = [i \in Tracks |-> IF i = "t1" THEN NewTrack ELSE DoneTrack]
    /\ queue = <<>>
    /\ worker = [w \in Instances |-> NewWorker]
    /\ calc = NoCalc

RECURSIVE SeqOf(_)
SeqOf(S) ==
    IF S = {} THEN <<>>
    ELSE LET m == CHOOSE x \in S : TRUE
         IN  <<m>> \o SeqOf(S \ {m})

\* start(): has_work is True: consecutive_empty = 0, batch_count += 1,
\* every PERIODIC_CLEANUP_BATCHES-th batch runs the maintenance passes.
had_work(r) ==
    LET bc == (r.batch_count + 1) % PERIODIC_CLEANUP_BATCHES
    IN  [r EXCEPT !.pc = IF bc = 0 THEN "cleanup" ELSE "drain",
                  !.tracks = <<>>, !.futures = <<>>, !.elapsed = 0,
                  !.consecutive_empty = 0, !.batch_count = bc,
                  !.empty_run = 0, !.error_run = 0]

\* start(): has_work is False: consecutive_empty += 1, maintenance at the threshold.
no_work(r) ==
    LET ce == r.consecutive_empty + 1
    IN  [r EXCEPT !.pc = IF ce >= EMPTY_BEFORE_MAINTENANCE THEN "cleanup" ELSE "drain",
                  !.tracks = <<>>, !.futures = <<>>, !.elapsed = 0,
                  !.consecutive_empty = ce,
                  !.empty_run = Min(EMPTY_BEFORE_MAINTENANCE, @ + 1), !.error_run = 0]

\* start(): except Exception: consecutive_empty += 1, recovery at the threshold.
loop_error(r) ==
    LET ce == r.consecutive_empty + 1
    IN  [r EXCEPT !.pc = IF ce >= ERRORS_BEFORE_RECOVERY THEN "cleanup" ELSE "drain",
                  !.tracks = <<>>, !.futures = <<>>, !.elapsed = 0,
                  !.consecutive_empty = ce,
                  !.error_run = Min(ERRORS_BEFORE_RECOVERY, @ + 1), !.empty_run = 0]

\* ------------------------------------------------------------- actions
\* A client pushes a job for a track (duplicates are possible).
Enqueue(job) ==
    /\ Len(queue) < MaxQueue
    /\ queue' = Append(queue, job)
    /\ UNCHANGED <<Track, worker, calc>>

\* start(): connect, then the startup maintenance passes.
Start(w) ==
    /\ worker[w].pc = "down"
    /\ worker' = [worker EXCEPT ![w] = [NewWorker EXCEPT !.pc = "cleanup"]]
    /\ UNCHANGED <<Track, queue, calc>>

\* _cleanup_stale_processing (ok = FALSE: the statement raises, rollback).
CleanupStaleProcessing(w, ok) ==
    /\ worker[w].pc = "cleanup"
    /\ Track' = IF ok THEN cleanup_rows(Track) ELSE Track
    /\ worker' = [worker EXCEPT ![w].pc = "retry", ![w].in_txn = FALSE]
    /\ UNCHANGED <<queue, calc>>

\* _retry_failed_tracks: the UPDATE (ok) and the tally SELECT (tally) are
\* statements of one try block that ends in commit; if either raises, the
\* handler rolls the transaction back.
RetryFailedTracks(w, ok, tally) ==
    /\ worker[w].pc = "retry"
    /\ Track' = IF ok /\ tally THEN retry_rows(Track) ELSE Track
    /\ worker' = [worker EXCEPT ![w].pc = "drain", ![w].consecutive_empty = 0,
                                 ![w].in_txn = FALSE,
                                 ![w].empty_run = 0, ![w].error_run = 0]
    /\ UNCHANGED <<queue, calc>>

\* process_batch_parallel: one lpop that returns a job.  job["trackId"]
\* raises KeyError for an entry without that key: the entry is gone from the
\* queue and the exception reaches the loop's "except Exception".
Pop(w) ==
    /\ worker[w].pc = "drain"
    /\ queue /= <<>>
    /\ LET got == Append(worker[w].tracks, descriptor_of(Head(queue)))
       IN  worker' = [worker EXCEPT ![w] =
                  IF Head(queue).trackId = Missing THEN loop_error(@)
                  ELSE [@ EXCEPT !.tracks = got,
                          !.pc = IF Len(got) < BATCH_SIZE THEN "drain" ELSE "claim_queue"]]
    /\ queue' = Tail(queue)
    /\ UNCHANGED <<Track, calc>>

\* process_batch_parallel: an lpop raises (the queue server cannot be
\* reached); the jobs popped so far are lost with the local list, and the
\* exception reaches the loop's "except Exception".
DrainFault(w) ==
    /\ worker[w].pc = "drain"
    /\ worker' = [worker EXCEPT ![w] = loop_error(@)]
    /\ UNCHANGED <<Track, queue, calc>>

\* process_batch_parallel: the lpop that finds the queue empty.
DrainEnd(w) ==
    /\ worker[w].pc = "drain"
    /\ queue = <<>>
    /\ worker' = [worker EXCEPT ![w].pc =
                      IF worker[w].tracks /= <<>> THEN "claim_queue" ELSE "backlog"]
    /\ UNCHANGED <<Track, queue, calc>>

\* process_batch_parallel: SELECT ... WHERE pending ORDER BY "fileModified" DESC
\* LIMIT BATCH_SIZE ("fileModified" is not modelled: any BATCH_SIZE rows).
PendingIds == {i \in Tracks : Track[i].analysisStatus = "pending"}

\* The SELECT begins a transaction.  Rows found: it stays open until the
\* claim commits.  No row found: "return False" with neither commit nor
\* rollback.  The statement raises: rollback, "return False".
FetchBacklog(w, S, ok) ==
    /\ worker[w].pc = "backlog"
    /\ S \subseteq PendingIds
    /\ Cardinality(S) = Min(BATCH_SIZE, Cardinality(PendingIds))
    /\ worker' = [worker EXCEPT ![w] =
                      IF ~ok THEN no_work([@ EXCEPT !.in_txn = FALSE])
                      ELSE IF S = {} THEN no_work([@ EXCEPT !.in_txn = TRUE])
                      ELSE [@ EXCEPT !.tracks = SeqOf({<<i, FilePath(i)>> : i \in S}),
                                     !.pc = "claim_db", !.in_txn = TRUE]]
    /\ UNCHANGED <<Track, queue, calc>>

\* The pool hands pending tasks, oldest first, to its free worker processes.
RECURSIVE start_tasks(_, _)
start_tasks(f, free) ==
    LET waiting == {k \in DOMAIN f : f[k] = "pending"}
    IN  IF free <= 0 \/ waiting = {} THEN f
        ELSE LET k == CHOOSE x \in waiting : \A y \in waiting : x <= y
             IN  start_tasks([f EXCEPT ![k] = "running"], free - 1)

busy(f) == Cardinality({k \in DOMAIN f : f[k] = "running"})

\* A pool that does not count the abandoned tasks it still executes.
pool_free_ignoring_abandoned(r) == NUM_WORKERS - busy(r.futures)

\* ProcessPoolExecutor(max_workers=NUM_WORKERS): the idle pool processes.
pool_free(r) == NUM_WORKERS - busy(r.futures) - r.zrun

\* The pool's queue is first-in first-out: abandoned tasks that wait are
\* older than every task of the current batch.
schedule(r) ==
    LET z == Min(r.zwait, Max(0, pool_free(r)))
    IN  [r EXCEPT !.zwait = @ - z, !.zrun = @ + z,
                  !.futures = start_tasks(@, pool_free(r) - z)]

submit_all(r, kept) ==
    schedule([r EXCEPT !.pc = "collect", !.tracks = kept, !.elapsed = 0,
                       !.futures = [k \in DOMAIN kept |-> "pending"]])

\* A dispatcher that submits every candidate, claimed or not.
filtered_tracks_unfiltered(T, tracks) == tracks

\* _process_tracks_parallel, lines 1207-1253: claim, filter, submit.
filtered_tracks(T, tracks) ==
    LET valid == valid_ids(T, Ids(tracks))
    IN  IF Cardinality(valid) < Len(tracks)
        THEN SelectSeq(tracks, LAMBDA t : IdOf(t) \in valid)
        ELSE tracks

Claim(w, ok) ==
    /\ worker[w].pc \in {"claim_queue", "claim_db"}
    /\ LET r == [worker[w] EXCEPT !.in_txn = FALSE]
           kept == filtered_tracks(Track, r.tracks)
       IN  /\ Track' = IF ok THEN claim_rows(Track, Ids(r.tracks)) ELSE Track
           /\ worker' = [worker EXCEPT ![w] =
                  IF ~ok \/ kept = <<>> THEN had_work(r)
                  ELSE IF r.broken
                       THEN (IF r.pc = "claim_queue" THEN loop_error(r) ELSE no_work(r))
                       ELSE submit_all(r, kept)]
    /\ UNCHANGED <<queue, calc>>

Running(r) == {k \in DOMAIN r.futures : r.futures[k] = "running"}
Waiting(r) == {k \in DOMAIN r.futures : r.futures[k] = "pending"}
NotDone(r) == {k \in DOMAIN r.futures : r.futures[k] \in {"pending", "running"}}
Unyielded(r) == {k \in DOMAIN r.futures : r.futures[k] /= "handled"}

\* _analyze_track_in_process returns; the freed process takes the next task.
TaskFinish(w, k) ==
    /\ worker[w].pc \in {"collect", "stopping"}
    /\ k \in DOMAIN worker[w].futures
    /\ worker[w].futures[k] = "running"
    /\ worker' = [worker EXCEPT ![w] = schedule([@ EXCEPT !.futures[k] = "finished"])]
    /\ UNCHANGED <<Track, queue, calc>>

\* A pool process dies: the executor is broken, every future that is not
\* done raises BrokenProcessPool, every later submit raises too.
WorkerDeath(w) ==
    /\ worker[w].pc = "collect"
    /\ Running(worker[w]) /= {}
    /\ worker' = [worker EXCEPT ![w].broken = TRUE,
                      ![w].zrun = 0, ![w].zwait = 0,
                      ![w].futures = [k \in DOMAIN @ |->
                          IF @[k] \in {"pending", "running"} THEN "broken" ELSE @[k]]]
    /\ UNCHANGED <<Track, queue, calc>>

\* What _analyze_track_in_process returns: features ("ok"), "File not found"
\* ("error"), an oversize file with "_skip" ("skip"), or the text of an
\* exception caught at lines 940-942, here a memory error ("oom").
Outcomes == {"ok", "error", "skip", "oom"}

\* The "_error" text and the "_skip" flag of a returned failure.
error_of(outcome) ==
    IF outcome = "skip" THEN ErrOversize
    ELSE IF outcome = "oom" THEN ErrMemory
    ELSE ErrAnalysis

\* A dispatcher that takes every returned failure for a permanent one.
is_permanent_always(outcome) == TRUE

\* A dispatcher that takes no returned failure for a permanent one.
is_permanent_never(outcome) == FALSE

\* is_permanent = features.get("_skip", False)
is_permanent(outcome) == outcome = "skip"

\* Lines 1262-1318: the row written for one completed future.
outcome_row(t, state, outcome) ==
    IF state = "broken" THEN save_failed_row(t, ErrPool, FALSE)
    ELSE IF outcome = "ok" THEN save_results_row(t)
    ELSE save_failed_row(t, error_of(outcome), is_permanent(outcome))

\* A dispatcher that lets a failed outcome write end the batch.
HandleResult_abort_on_fault(w, k, outcome, ok) ==
    /\ worker[w].pc = "collect"
    /\ k \in DOMAIN worker[w].futures
    /\ worker[w].futures[k] \in {"finished", "broken"}
    /\ LET r == worker[w]
           i == IdOf(r.tracks[k])
           after == [r EXCEPT !.futures[k] = "handled"]
       IN  /\ Track' = IF ok THEN [Track EXCEPT ![i] = outcome_row(@, r.futures[k], outcome)]
                       ELSE Track
           /\ worker' = [worker EXCEPT ![w] =
                  IF ~ok THEN loop_error(r)
                  ELSE IF Unyielded(after) = {} THEN had_work(after) ELSE after]
    /\ UNCHANGED <<queue, calc>>

\* as_completed yields future k; its outcome is classified and persisted.
HandleResult(w, k, outcome, ok) ==
    /\ worker[w].pc = "collect"
    /\ k \in DOMAIN worker[w].futures
    /\ worker[w].futures[k] \in {"finished", "broken"}
    /\ LET r == worker[w]
           i == IdOf(r.tracks[k])
           after == [r EXCEPT !.futures[k] = "handled"]
       IN  /\ Track' = IF ok THEN [Track EXCEPT ![i] = outcome_row(@, r.futures[k], outcome)]
                       ELSE Track
           /\ worker' = [worker EXCEPT ![w] =
                  IF Unyielded(after) = {} THEN had_work(after) ELSE after]
    /\ UNCHANGED <<queue, calc>>

TimedOut(r) == r.elapsed * SecondsPerTick >= batch_timeout(Len(r.tracks))

\* Lines 1320-1332: as_completed raises TimeoutError; every future that is
\* not done is marked skipped.  F: the futures whose write fails.  Z: the
\* running tasks that go on running in the pool (the others return as the
\* timeout fires); a task that waits in the pool's queue stays there.
BatchTimeout(w, F, Z) ==
    /\ worker[w].pc = "collect"
    /\ TimedOut(worker[w])
    /\ Unyielded(worker[w]) /= {}
    /\ F \subseteq NotDone(worker[w])
    /\ Z \subseteq Running(worker[w])
    /\ LET r == worker[w]
           hit == {IdOf(r.tracks[k]) : k \in NotDone(r) \ F}
           left == [r EXCEPT !.zrun = @ + Cardinality(Z),
                             !.zwait = Min(MaxAbandoned, @ + Cardinality(Waiting(r))),
                             !.futures = <<>>]
       IN  /\ Track' = [i \in Tracks |->
                  IF i \in hit THEN save_failed_row(Track[i], ErrBatchTimeout, TRUE)
                  ELSE Track[i]]
           /\ worker' = [worker EXCEPT ![w] = had_work(schedule(left))]
    /\ UNCHANGED <<queue, calc>>

\* An abandoned task whose result is saved to the row its batch gave up.
ZombieFinish_saving(w) ==
    /\ worker[w].pc /= "down"
    /\ worker[w].zrun > 0
    /\ Track' = [i \in Tracks |->
           IF Track[i].analysisError = ErrBatchTimeout
           THEN save_results_row(Track[i]) ELSE Track[i]]
    /\ worker' = [worker EXCEPT ![w] = schedule([@ EXCEPT !.zrun = @ - 1])]
    /\ UNCHANGED <<queue, calc>>

\* An abandoned task returns; nobody reads its result.
ZombieFinish(w) ==
    /\ worker[w].pc /= "down"
    /\ worker[w].zrun > 0
    /\ worker' = [worker EXCEPT ![w] = schedule([@ EXCEPT !.zrun = @ - 1])]
    /\ UNCHANGED <<Track, queue, calc>>

\* KeyboardInterrupt: the loop is left, the finally block begins.
Interrupt(w) ==
    /\ worker[w].pc \notin {"down", "stopping"}
    /\ worker' = [worker EXCEPT ![w].pc = "stopping"]
    /\ UNCHANGED <<Track, queue, calc>>

\* A shutdown that does not wait for the pool.
Shutdown_no_wait(w) ==
    /\ worker[w].pc = "stopping"
    /\ worker' = [worker EXCEPT ![w] = NewWorker]
    /\ UNCHANGED <<Track, queue, calc>>

\* finally: executor.shutdown(wait=True) returns once every task the pool
\* holds has been executed; then db.close() and the process ends.
Shutdown(w) ==
    /\ worker[w].pc = "stopping"
    /\ NotDone(worker[w]) = {}
    /\ worker[w].zrun = 0 /\ worker[w].zwait = 0
    /\ worker' = [worker EXCEPT ![w] = NewWorker]
    /\ UNCHANGED <<Track, queue, calc>>

\* A crash that takes the outcomes already written for the batch with it.
Crash_losing_batch(w) ==
    /\ worker[w].pc /= "down"
    /\ Track' = [i \in Tracks |->
           IF i \in Ids(worker[w].tracks) /\ worker[w].futures /= <<>>
           THEN [Track[i] EXCEPT !.analysisStatus = "processing", !.analysisError = NULL]
           ELSE Track[i]]
    /\ worker' = [worker EXCEPT ![w] = NewWorker]
    /\ UNCHANGED <<queue, calc>>

\* The orchestrator process dies; its pool dies with it.
Crash(w) ==
    /\ worker[w].pc /= "down"
    /\ worker' = [worker EXCEPT ![w] = NewWorker]
    /\ UNCHANGED <<Track, queue, calc>>

\* One minute passes.
Tick ==
    /\ Track' = [i \in Tracks |->
           IF Track[i].analysisStatus = "processing"
           THEN [Track[i] EXCEPT !.age = Min(AgeCap, @ + 1)]
           ELSE Track[i]]
    /\ worker' = [w \in Instances |->
           IF worker[w].pc = "collect"
           THEN [worker[w] EXCEPT !.elapsed = Min(ElapsedCap, @ + 1)]
           ELSE worker[w]]
    /\ <<Track, worker>>' /= <<Track, worker>>
    /\ UNCHANGED <<queue, calc>>

\* One step of worker process w; Oks: the results a Store statement can have
\* (TRUE: it commits, FALSE: it raises and is rolled back); Outlive: whether
\* an analysis may go on running after its batch has timed out.
Step(w, Oks, Outlive) ==
    \/ Start(w)
    \/ \E ok \in Oks : CleanupStaleProcessing(w, ok)
    \/ \E ok \in Oks, tally \in Oks : RetryFailedTracks(w, ok, tally)
    \/ Pop(w)
    \/ DrainEnd(w)
    \/ \E S \in SUBSET Tracks, ok \in Oks : FetchBacklog(w, S, ok)
    \/ \E ok \in Oks : Claim(w, ok)
    \/ \E k \in 1..BATCH_SIZE, o \in Outcomes, ok \in Oks : HandleResult(w, k, o, ok)
    \/ \E F \in (IF FALSE \in Oks THEN SUBSET (1..BATCH_SIZE) ELSE {{}}),
          Z \in (IF Outlive THEN SUBSET (1..BATCH_SIZE) ELSE {{}}) :
          BatchTimeout(w, F, Z)

\* The tracks created for analysis; clients enqueue descriptors for them.
Created == {"t1"}

Next ==
    \/ \E i \in Created : Enqueue(Job(i, FilePath(i)))
    \/ \E w \in Instances : Step(w, BOOLEAN, FALSE)
    \/ \E w \in Instances, k \in 1..BATCH_SIZE : TaskFinish(w, k)
    \/ \E w \in Instances : Crash(w)
    \/ Tick

\* Several worker processes share the Store and the queue; Store statements
\* may fail, processes may crash and restart, analyses may never return.
Spec == Init /\ [][Next]_vars

\* The clock of a worker that collects every result as soon as it is there:
\* no minute passes while a finished future waits to be yielded.
TickLive ==
    /\ \A w \in Instances :
          worker[w].pc = "collect" =>
              \A k \in DOMAIN worker[w].futures :
                  worker[w].futures[k] \notin {"finished", "broken"}
    /\ Tick

\* An analysis that returns does so before the deadline of its batch; one
\* that has not returned by then is found not done by the timeout handler.
TaskFinishLive(w, k) ==
    /\ ~TimedOut(worker[w])
    /\ TaskFinish(w, k)

\* One worker process whose Store never fails and which never crashes; a
\* pool process may die.  The orchestrator loop and the clock are scheduled
\* fairly; an analysis need not ever return.
NextLive ==
    \/ \E i \in Created : Enqueue(Job(i, FilePath(i)))
    \/ Step("w1", {TRUE}, FALSE)
    \/ \E k \in 1..BATCH_SIZE : TaskFinishLive("w1", k)
    \/ WorkerDeath("w1")
    \/ TickLive

SpecLive ==
    /\ Init
    /\ [][NextLive]_vars
    /\ WF_vars(Step("w1", {TRUE}, FALSE))
    /\ WF_vars(TickLive)

\* One worker process and two tracks that wait for analysis.  Store
\* statements may fail, an analysis may outlive its batch, and the process
\* may be interrupted and started again.
InitBatch ==
    /\ Track = [i \in Tracks |-> NewTrack]
    /\ queue = <<>>
    /\ worker = [w \in Instances |-> NewWorker]
    /\ calc = NoCalc

NextBatch ==
    \/ \E i \in Tracks : Enqueue(Job(i, FilePath(i)))
    \/ Step("w1", BOOLEAN, TRUE)
    \/ \E k \in 1..BATCH_SIZE : TaskFinish("w1", k)
    \/ ZombieFinish("w1")
    \/ Interrupt("w1")
    \/ Shutdown("w1")
    \/ Tick

SpecBatch == InitBatch /\ [][NextBatch]_vars

\* One worker process whose Store never fails, and two tracks that wait
\* for analysis.  The producer of t1 leaves "filePath" out of its jobs, and
\* an entry without "trackId" may be queued.  The queue server may be
\* unreachable, an analysis may return at any time or
\* never, and the process may crash and be started again.
SoloJobs == {Job("t1", Missing), Job("t2", FilePath("t2")), Job(Missing, Missing)}

NextSolo ==
    \/ \E job \in SoloJobs : Enqueue(job)
    \/ Step("w1", {TRUE}, FALSE)
    \/ DrainFault("w1")
    \/ \E k \in 1..BATCH_SIZE : TaskFinish("w1", k)
    \/ Crash("w1")
    \/ Tick

SpecSolo == InitBatch /\ [][NextSolo]_vars

\* One worker process whose Store never fails and whose pool never breaks,
\* scheduled fairly.  Track t1 waits in the Store and is never queued; the
\* producers push jobs for t2 whenever they like, also after t2 is done.
NextTraffic ==
    \/ Enqueue(Job("t2", FilePath("t2")))
    \/ Step("w1", {TRUE}, FALSE)
    \/ \E k \in 1..BATCH_SIZE : TaskFinishLive("w1", k)
    \/ TickLive

SpecTraffic ==
    /\ InitBatch
    /\ [][NextTraffic]_vars
    /\ WF_vars(Step("w1", {TRUE}, FALSE))
    /\ WF_vars(TickLive)

\* The batch deadline of lines 1257-1258 evaluated for one batch length and
\* one setting of BASE_TRACK_TIMEOUT and MAX_TRACK_TIMEOUT.
BaseTimeouts == {60, 120}
MaxTimeouts == {60, 600}

InitDeadline ==
    /\ Track = [i \in Tracks |-> NewTrack]
    /\ queue = <<>>
    /\ worker = [w \in Instances |-> NewWorker]
    /\ calc \in [op : {"batch_timeout_args"}, n : 1..MaxBatchLen,
                 base : BaseTimeouts, maxt : MaxTimeouts]

ComputeBatchTimeout ==
    /\ calc.op = "batch_timeout_args"
    /\ calc' = [op |-> "batch_timeout", n |-> calc.n, base |-> calc.base,
                maxt |-> calc.maxt,
                out |-> batch_timeout_for(calc.n, calc.base, calc.maxt)]
    /\ UNCHANGED <<Track, queue, worker>>

SpecDeadline == InitDeadline /\ [][ComputeBatchTimeout]_vars

\* ------------------------------------------------------------ properties
Status(i) == Track[i].analysisStatus
RetryCount(i) == Track[i].analysisRetryCount
ClaimPcs == {"claim_queue", "claim_db"}
Holds(w, i) == worker[w].pc = "collect" /\ i \in Ids(worker[w].tracks)

\* C1: in every reachable state at most one pool task is analysing any
\* given track.
C1_SingleExecution ==
    \A i \in Tracks :
        Cardinality({x \in Instances \X (1..BATCH_SIZE) :
            /\ x[2] \in DOMAIN worker[x[1]].futures
            /\ worker[x[1]].futures[x[2]] = "running"
            /\ IdOf(worker[x[1]].tracks[x[2]]) = i}) <= 1

\* C2: a claim step returns a track to its caller exactly when the track is
\* pending at that instant, and sets it to processing: of the callers that
\* race for a pending track the first gets it and every other drops it.
C2_SingleClaim ==
    [][\A w \in Instances, i \in Tracks :
          (/\ worker[w].pc \in ClaimPcs
           /\ worker'[w].pc \notin ClaimPcs \cup {"down"}
           /\ i \in Ids(worker[w].tracks))
          =>
          /\ (worker'[w].pc = "collect" /\ i \in Ids(worker'[w].tracks))
                => (Status(i) = "pending" /\ Track'[i].analysisStatus = "processing")
          /\ (Status(i) = "pending" /\ Track' /= Track)
                => (worker'[w].pc = "collect" /\ i \in Ids(worker'[w].tracks))
          /\ Status(i) /= "pending" => Track'[i] = Track[i]
      ]_vars

\* Two callers run the claim step with the same track: one got it, the other
\* is about to claim and finds it taken.
C2_Witness ==
    \E w1, w2 \in Instances, i \in Tracks :
        /\ w1 /= w2
        /\ Holds(w1, i)
        /\ worker[w2].pc \in ClaimPcs /\ i \in Ids(worker[w2].tracks)
        /\ Status(i) = "processing"

\* C3: after the claim step a track is submitted to the pool at most once
\* per batch, whatever duplicates the candidate batch held.
C3_ClaimDeduplicates ==
    \A w \in Instances :
        worker[w].pc = "collect" =>
            \A j, k \in DOMAIN worker[w].tracks :
                j /= k => IdOf(worker[w].tracks[j]) /= IdOf(worker[w].tracks[k])

\* C4: a track that is completed or skipped never changes status again.
C4_TerminalNeverChanges ==
    [][\A i \in Tracks :
          Status(i) \in {"completed", "skipped"}
              => Track'[i].analysisStatus = Status(i)]_vars

\* C5: no step decreases a track's retry count.
C5_RetryCountMonotone ==
    [][\A i \in Tracks : Track'[i].analysisRetryCount >= RetryCount(i)]_vars

\* C6: the retry pass changes a row only if it is failed with a retry count
\* below MAX_RETRIES, and then moves it to pending; skipped rows, exhausted
\* failed rows and every other row are left as they are.
C6_RetryPass ==
    [][\A w \in Instances :
          (worker[w].pc = "retry" /\ worker'[w].pc = "drain") =>
              \A i \in Tracks :
                  /\ Track'[i] /= Track[i] =>
                        /\ Status(i) = "failed"
                        /\ RetryCount(i) < MAX_RETRIES
                        /\ Track'[i].analysisStatus = "pending"
                  /\ Status(i) = "skipped" => Track'[i] = Track[i]
      ]_vars

\* A failed track was moved back to pending (only the retry pass does that).
C6_Witness ==
    \E i \in Tracks :
        /\ Status(i) = "pending"
        /\ RetryCount(i) >= 1
        /\ Track[i].analysisError = NULL

\* C7: error is set exactly when the status is failed or skipped.
C7_ErrorMatchesStatus ==
    \A i \in Tracks :
        /\ Status(i) \in {"failed", "skipped"} => Track[i].analysisError /= NULL
        /\ Status(i) \in {"pending", "processing", "completed"}
              => Track[i].analysisError = NULL

\* A track that failed before is being analysed again: its error was cleared
\* by the retry pass and neither claim nor reclaim touched it.
C7_Witness ==
    \E i \in Tracks, w \in Instances :
        Status(i) = "processing" /\ RetryCount(i) >= 1 /\ Holds(w, i)

\* C8: under fair scheduling every pending track eventually reaches a
\* terminal outcome: completed, skipped, or failed with its retries used up.
Terminal(i) ==
    \/ Status(i) \in {"completed", "skipped"}
    \/ Status(i) = "failed" /\ RetryCount(i) >= MAX_RETRIES

C8_EventuallyTerminal ==
    \A i \in Tracks : (Status(i) = "pending") ~> Terminal(i)

\* C9: every retryable failure adds exactly one to the retry count (the
\* only other change of the count is a permanent skip); a failed track
\* whose count has reached MAX_RETRIES is never requeued nor claimed again.
C9_RetryCeiling ==
    [][\A i \in Tracks :
          /\ Track'[i].analysisRetryCount /= RetryCount(i) =>
                \/ /\ Track'[i].analysisStatus = "failed"
                   /\ Track'[i].analysisRetryCount = RetryCount(i) + 1
                \/ Track'[i].analysisStatus = "skipped"
          /\ (Track'[i].analysisStatus = "failed" /\ Track'[i] /= Track[i]) =>
                Track'[i].analysisRetryCount = RetryCount(i) + 1
          /\ (Status(i) = "failed" /\ RetryCount(i) >= MAX_RETRIES) =>
                Track'[i].analysisStatus \notin {"pending", "processing"}
      ]_vars

\* A track failed MAX_RETRIES times, and a worker has just run a retry pass
\* (it is back at the head of its loop with both counters at zero).
C9_Witness ==
    \E i \in Tracks, w \in Instances :
        /\ Status(i) = "failed"
        /\ RetryCount(i) = MAX_RETRIES
        /\ worker[w].pc = "drain" /\ worker[w].tracks = <<>>
        /\ worker[w].consecutive_empty = 0 /\ worker[w].batch_count = 0

\* C10: a reclaim pass moves exactly the rows that are processing and older
\* than the stale window to pending, touches nothing else, and leaves no
\* row that a second pass run at once would reclaim.
OlderThanWindow(t) ==
    t.analysisStatus = "processing" /\ t.age > STALE_PROCESSING_MINUTES

C10_StaleReclaim ==
    [][\A w \in Instances :
          (worker[w].pc = "cleanup" /\ worker'[w].pc = "retry") =>
              /\ \A i \in Tracks :
                    Track'[i] /= Track[i] =>
                        /\ OlderThanWindow(Track[i])
                        /\ Track'[i].analysisStatus = "pending"
              /\ Track' /= Track =>
                    /\ \A i \in Tracks : OlderThanWindow(Track[i]) => Track'[i] /= Track[i]
                    /\ \A i \in Tracks : ~OlderThanWindow(Track'[i])
                    /\ cleanup_rows(Track') = Track'
      ]_vars

\* A track still held by a running batch was reclaimed by the pass another
\* worker has just run.
C10_Witness ==
    \E i \in Tracks, w1, w2 \in Instances :
        /\ w1 /= w2
        /\ worker[w1].pc = "retry"
        /\ Holds(w2, i)
        /\ Status(i) = "pending"
        /\ RetryCount(i) = 0

\* C11: the batch deadline of n items is n x base clamped to at least 300
\* seconds and at most n x max (wherever 300 does not exceed n x max); with
\* base 120 and max 600 it is 480 for n = 4, 300 for n = 1, 6000 for n = 50.
Clamp(x, lo, hi) == IF x < lo THEN lo ELSE IF x > hi THEN hi ELSE x

Written(i, error) ==
    Track'[i] /= Track[i] /\ Track'[i].analysisError = error

RetryPassBy(w) == worker[w].pc = "retry" /\ worker'[w].pc = "drain"

\* C12: a reported oversize file leaves the track skipped with the retry
\* count set to MAX_RETRIES; a reported generic error leaves it failed with
\* the count one higher and the new message as its error.
C12_Classification ==
    [][\A i \in Tracks :
          /\ Written(i, ErrOversize) =>
                /\ Track'[i].analysisStatus = "skipped"
                /\ Track'[i].analysisRetryCount = MAX_RETRIES
          /\ \A e \in {ErrAnalysis, ErrPool} :
                Written(i, e) =>
                    /\ Track'[i].analysisStatus = "failed"
                    /\ Track'[i].analysisRetryCount = RetryCount(i) + 1
      ]_vars

\* A track was skipped as oversize after it had failed before: the count was
\* forced to the ceiling.
C12_Witness ==
    \E i \in Tracks :
        /\ Status(i) = "skipped"
        /\ Track[i].analysisError = ErrOversize
        /\ RetryCount(i) = MAX_RETRIES

\* C15: "File not found" is written as failed, never skipped, with the count
\* one higher; the retry pass requeues the track while its count is below
\* MAX_RETRIES and no longer once the count has reached it.
C15_NotFoundRetryable ==
    [][\A i \in Tracks :
          /\ Written(i, ErrAnalysis) =>
                /\ Track'[i].analysisStatus = "failed"
                /\ Track'[i].analysisRetryCount = RetryCount(i) + 1
          /\ (Status(i) = "failed" /\ Track[i].analysisError = ErrAnalysis) =>
                \A w \in Instances :
                    RetryPassBy(w) =>
                        IF RetryCount(i) < MAX_RETRIES
                        THEN Track' = Track \/ Track'[i].analysisStatus = "pending"
                        ELSE Track'[i] = Track[i]
      ]_vars

\* A track that failed with "File not found" and has retries left is about
\* to be looked at by a retry pass.
C15_Witness ==
    \E i \in Tracks, w \in Instances :
        /\ Status(i) = "failed"
        /\ Track[i].analysisError = ErrAnalysis
        /\ RetryCount(i) < MAX_RETRIES
        /\ worker[w].pc = "retry"

\* C16: "File not found" is permanent: the track is written as skipped.
C16_NotFoundPermanent ==
    [][\A i \in Tracks :
          Written(i, ErrAnalysis) => Track'[i].analysisStatus = "skipped"]_vars

\* C17: a memory error of an analysis leaves the track skipped.
C17_MemoryErrorPermanent ==
    [][\A i \in Tracks :
          Written(i, ErrMemory) => Track'[i].analysisStatus = "skipped"]_vars

\* C13: when the queue is emptied with fewer than BATCH_SIZE descriptors
\* taken, the batch is topped up from the pending backlog; a batch never
\* holds more than BATCH_SIZE descriptors.
C13_TopUpFromBacklog ==
    [][\A w \in Instances :
          /\ Len(worker'[w].tracks) <= BATCH_SIZE
          /\ (/\ worker[w].pc = "drain"
              /\ queue = <<>>
              /\ worker[w].tracks /= <<>>
              /\ Len(worker[w].tracks) < BATCH_SIZE
              /\ worker'[w].pc = "claim_queue"
              /\ PendingIds \ Ids(worker[w].tracks) /= {})
             => Len(worker'[w].tracks) > Len(worker[w].tracks)
      ]_vars

\* C14: an analysis that runs past the per-item deadline while the batch
\* deadline has not elapsed ends with its track skipped for an analysis
\* timeout.
PastItemDeadline(w, k) ==
    /\ worker[w].pc = "collect"
    /\ k \in DOMAIN worker[w].futures
    /\ worker[w].futures[k] = "running"
    /\ worker[w].elapsed * SecondsPerTick >= MAX_TRACK_TIMEOUT
    /\ ~TimedOut(worker[w])

C14_PerItemTimeout ==
    \A w \in Instances, k \in 1..BATCH_SIZE, i \in Tracks :
        (PastItemDeadline(w, k) /\ IdOf(worker[w].tracks[k]) = i)
            ~> (Status(i) = "skipped" /\ Track[i].analysisError = ErrTrackTimeout)

\* C18: at every instant a pool executes at most NUM_WORKERS analyses,
\* those of timed-out batches that still run included.
C18_PoolCap ==
    \A w \in Instances :
        Cardinality(Running(worker[w])) + worker[w].zrun <= NUM_WORKERS

\* An analysis abandoned by a timed-out batch still holds a pool process and
\* a task of a later batch waits for one.
C18_Witness ==
    \E w \in Instances :
        /\ worker[w].pc = "collect"
        /\ worker[w].zrun >= 1
        /\ Waiting(worker[w]) /= {}
        /\ Cardinality(Running(worker[w])) + worker[w].zrun = NUM_WORKERS

\* C19: the death of a pool process fails only the task it was running, and
\* the pool goes on accepting the submissions of every later batch.
C19_PoolSurvivesDeath ==
    [][\A w \in Instances :
          /\ (worker[w].pc = "collect" /\ worker'[w].pc = "collect") =>
                Cardinality({k \in DOMAIN worker[w].futures :
                    /\ worker[w].futures[k] /= "broken"
                    /\ worker'[w].futures[k] = "broken"}) <= 1
          /\ (worker[w].pc \in ClaimPcs /\ Track' /= Track) =>
                worker'[w].pc = "collect"
      ]_vars

C21_MissingPathAccepted ==
    [][\A w \in Instances :
          /\ ( /\ worker[w].pc = "drain" /\ queue /= <<>>
               /\ queue' = Tail(queue)
               /\ Head(queue).trackId /= Missing
               /\ Head(queue).filePath = Missing ) =>
                /\ worker'[w].tracks =
                       Append(worker[w].tracks, <<Head(queue).trackId, "">>)
                /\ worker'[w].pc \in {"drain", "claim_queue"}
                /\ worker'[w].error_run = worker[w].error_run
          /\ (worker[w].pc = "claim_queue" /\ worker'[w].pc \notin {"claim_queue", "down"}) =>
                \A k \in DOMAIN worker[w].tracks :
                    LET t == worker[w].tracks[k]
                    IN  (t[2] = "" /\ Status(IdOf(t)) = "pending") =>
                            /\ Track'[IdOf(t)].analysisStatus = "processing"
                            /\ worker'[w].pc = "collect"
                            /\ \E j \in DOMAIN worker'[w].tracks :
                                  /\ worker'[w].tracks[j] = t
                                  /\ worker'[w].futures[j] \in {"pending", "running"}
      ]_vars

\* The analysis of a descriptor with the empty path runs.
C21_Witness ==
    \E w \in Instances :
        /\ worker[w].pc = "collect"
        /\ \E k \in DOMAIN worker[w].tracks :
              /\ worker[w].tracks[k] = <<"t1", "">>
              /\ worker[w].futures[k] = "running"

\* C22: when the dispatcher returns from a batch whose deadline has elapsed
\* and no Store write failed, no item of the batch is still processing:
\* every item without a persisted outcome has been marked skipped.
C22_TimeoutMarksAll ==
    [][\A w \in Instances :
          ( /\ worker[w].pc = "collect" /\ TimedOut(worker[w])
            /\ worker'[w].pc \in {"drain", "cleanup"} ) =>
              \A i \in Ids(worker[w].tracks) :
                  Track'[i].analysisStatus /= "processing"
      ]_vars

C24_CrashRecovery ==
    [][\A w \in Instances :
          /\ (worker[w].pc /= "down" /\ worker'[w].pc = "down") =>
                \A i \in Tracks :
                    Status(i) = "processing" => Track'[i] = Track[i]
          /\ (worker[w].pc = "cleanup" /\ worker'[w].pc = "retry") =>
                \A i \in Tracks :
                    OlderThanWindow(Track[i]) =>
                        /\ Track'[i].analysisStatus = "pending"
                        /\ Track'[i].analysisRetryCount = RetryCount(i)
                        /\ IsClaimable(Track'[i])
      ]_vars

\* The process is down and a row it claimed is still processing, older
\* than the stale window.
C24_Witness ==
    /\ \A w \in Instances : worker[w].pc = "down"
    /\ \E i \in Tracks : OlderThanWindow(Track[i])

\* C25: the reclaim and retry passes begin only at startup, after every
\* PERIODIC_CLEANUP_BATCHES-th batch that had work, on idleness after
\* EMPTY_BEFORE_MAINTENANCE consecutive empty batches and not before, or in
\* the recovery from errors; the pass and any batch with work restart the
\* count of empty batches.
C25_MaintenanceCadence ==
    [][\A w \in Instances :
          /\ (worker[w].pc /= "cleanup" /\ worker'[w].pc = "cleanup") =>
                \/ worker[w].pc = "down"
                \/ /\ worker[w].pc \in ClaimPcs \cup {"collect"}
                   /\ worker'[w].batch_count = 0
                   /\ worker'[w].consecutive_empty = 0
                \/ /\ worker[w].pc = "backlog"
                   /\ worker'[w].empty_run = EMPTY_BEFORE_MAINTENANCE
                \/ worker[w].pc = "drain"
          /\ (worker[w].pc = "retry" /\ worker'[w].pc = "drain") =>
                worker'[w].consecutive_empty = 0
      ]_vars

\* C26: an iteration of the loop that fails does not end the loop, and the
\* recovery cycle (reconnect, reclaim and retry passes) runs when and only
\* when ERRORS_BEFORE_RECOVERY iterations in a row have failed.
C26_RecoveryAfterErrors ==
    [][\A w \in Instances :
          DrainFault(w) =>
              /\ worker'[w].pc \in {"drain", "cleanup"}
              /\ worker'[w].pc = "cleanup" <=>
                     worker'[w].error_run = ERRORS_BEFORE_RECOVERY
      ]_vars

\* C27: once a batch timeout has marked an item skipped, the analysis that
\* still runs for it changes nothing when it returns: the step in which an
\* abandoned analysis ends leaves every row as it is, and the row marked
\* skipped by the timeout is never written again.
C27_LateResultDiscarded ==
    [][\A w \in Instances :
          /\ ZombieFinish(w) => Track' = Track
          /\ \A i \in Tracks :
                (Status(i) = "skipped" /\ Track[i].analysisError = ErrBatchTimeout) =>
                    Track'[i] = Track[i]
      ]_vars

\* An item was marked skipped by the batch timeout and an analysis of that
\* batch still runs in the pool.
C27_Witness ==
    \E w \in Instances, i \in Tracks :
        /\ worker[w].zrun > 0
        /\ Status(i) = "skipped"
        /\ Track[i].analysisError = ErrBatchTimeout

\* C28: the outcome of each item is committed in a transaction of its own as
\* its future is handled, not held back for the batch, and a crash of the
\* orchestrator changes no row: the items already persisted keep their
\* outcome and the others stay processing.
C28_PerItemCommit ==
    [][\A w \in Instances :
          /\ \A k \in 1..BATCH_SIZE :
                (\E o \in Outcomes : HandleResult(w, k, o, TRUE)) =>
                    LET i == IdOf(worker[w].tracks[k])
                    IN  /\ Track'[i].analysisStatus \in {"completed", "failed", "skipped"}
                        /\ \A j \in Tracks \ {i} : Track'[j] = Track[j]
                        /\ ~worker'[w].in_txn
          /\ (worker[w].pc /= "down" /\ worker'[w].pc = "down") => Track' = Track
      ]_vars

\* The process went down between the outcomes of a batch: one row has its
\* outcome, the other is still processing.
C28_Witness ==
    /\ \A w \in Instances : worker[w].pc = "down"
    /\ \E i, j \in Tracks :
          /\ Status(i) \in {"completed", "failed", "skipped"}
          /\ Track[i].analysisError /= ErrBatchTimeout
          /\ Status(j) = "processing"

\* C29: no Store operation leaves a transaction open when it returns, the
\* backlog fetch that finds no pending row included: a transaction is open
\* only between a backlog fetch that found rows and the claim of these rows.
C29_NoOpenTransaction ==
    \A w \in Instances : worker[w].in_txn => worker[w].pc = "claim_db"

\* C30: the intake reports 'no work' only when the queue was found empty
\* and the Store holds no pending row; when the queue has a job the batch
\* takes it, and when the Store has pending rows the backlog fetch returns
\* a batch of them.
C30_NoWorkOnlyWhenEmpty ==
    [][\A w \in Instances :
          /\ (worker[w].pc = "backlog" /\ worker'[w].pc \in {"drain", "cleanup"}) =>
                PendingIds = {}
          /\ (worker[w].pc = "backlog" /\ worker'[w].pc = "claim_db") =>
                /\ worker'[w].tracks /= <<>>
                /\ Ids(worker'[w].tracks) \subseteq PendingIds
          /\ (worker[w].pc = "drain" /\ worker'[w].pc = "backlog") =>
                queue = <<>> /\ worker[w].tracks = <<>>
      ]_vars

\* C31: the tally of the retry pass is diagnostic only: when the UPDATE of
\* the pass succeeds and the tally SELECT raises, the failed rows under the
\* ceiling are moved to pending all the same and the move is committed.
C31_TallyDiagnosticOnly ==
    [][\A w \in Instances :
          RetryFailedTracks(w, TRUE, FALSE) =>
              /\ Track' = retry_rows(Track)
              /\ ~worker'[w].in_txn
      ]_vars

\* C32: the claim step changes only the candidates that are pending, to
\* processing and nothing else of the row; every candidate in another
\* status keeps its row, is dropped from the working batch and gets no
\* future in the pool.
C32_ClaimFrame ==
    [][\A w \in Instances :
          (worker[w].pc \in ClaimPcs /\ worker'[w].pc \notin ClaimPcs \cup {"stopping", "down"}) =>
              LET cand == Ids(worker[w].tracks)
                  pend == {i \in cand : Status(i) = "pending"}
              IN  /\ \A i \in Tracks :
                        Track'[i] /= Track[i] =>
                            /\ i \in pend
                            /\ Track'[i] = [Track[i] EXCEPT !.analysisStatus = "processing",
                                                            !.age = 0]
                  /\ Track' /= Track =>
                        \A i \in pend : Track'[i].analysisStatus = "processing"
                  /\ worker'[w].pc = "collect" =>
                        /\ Ids(worker'[w].tracks) = pend
                        /\ DOMAIN worker'[w].futures = DOMAIN worker'[w].tracks
                        /\ \A i \in pend : Track'[i].analysisStatus = "processing"
      ]_vars

\* The claim step runs on a drained batch with a stale entry: one candidate
\* is pending, the other was completed by an earlier batch.
C32_Witness ==
    \E w \in Instances, i, j \in Tracks :
        /\ worker[w].pc = "claim_queue"
        /\ Ids(worker[w].tracks) = {i, j}
        /\ Status(i) = "pending"
        /\ Status(j) = "completed"

\* C33: the status of an item changes only along the edges pending ->
\* processing, processing -> completed, failed or skipped, processing ->
\* pending (stale reclaim) and failed -> pending (retry); a row that is not
\* processing is never written by an outcome write.
StatusEdges ==
    {<<"pending", "processing">>, <<"processing", "completed">>,
     <<"processing", "failed">>, <<"processing", "skipped">>,
     <<"processing", "pending">>, <<"failed", "pending">>}

C33_StatusEdges ==
    [][\A i \in Tracks :
          /\ Track'[i].analysisStatus /= Status(i) =>
                <<Status(i), Track'[i].analysisStatus>> \in StatusEdges
          /\ (Status(i) \in {"completed", "skipped"}) => Track'[i] = Track[i]
      ]_vars

\* C34: with every row created at retry count 0, the retry count of an item
\* never exceeds MAX_RETRIES.
C34_RetryCountBounded ==
    \A i \in Tracks : RetryCount(i) <= MAX_RETRIES

\* C35: a reclaim pass returns an item to pending only when no running
\* instance has an analysis of it in flight: an item whose analysis runs in
\* the batch of an instance, the batch deadline not yet elapsed, is not
\* reclaimed by the maintenance pass of another instance.
InFlight(w, i) ==
    /\ worker[w].pc = "collect"
    /\ ~TimedOut(worker[w])
    /\ \E k \in DOMAIN worker[w].futures :
          /\ IdOf(worker[w].tracks[k]) = i
          /\ worker[w].futures[k] = "running"

C35_NoReclaimInFlight ==
    [][\A w \in Instances, i \in Tracks :
          ( /\ worker[w].pc = "cleanup" /\ worker'[w].pc = "retry"
            /\ Status(i) = "processing"
            /\ Track'[i].analysisStatus = "pending" ) =>
              \A v \in Instances \ {w} : ~InFlight(v, i)
      ]_vars

\* C36: a pending item that is only in the Store backlog is eventually
\* claimed, whatever the producers push on the queue.
C36_BacklogNotStarved ==
    \A i \in Tracks : (Status(i) = "pending") ~> (Status(i) /= "pending")

\* C37: a descriptor popped from the queue during a drain stays in the
\* working batch until the claim step of the same iteration: no step of the
\* drain, not a malformed later entry and not a failing pop, discards it.
C37_PoppedNeverDiscarded ==
    [][\A w \in Instances :
          (worker[w].pc = "drain" /\ worker'[w].pc /= "down") =>
              /\ Len(worker'[w].tracks) >= Len(worker[w].tracks)
              /\ SubSeq(worker'[w].tracks, 1, Len(worker[w].tracks)) = worker[w].tracks
      ]_vars

\* C38: an item is written as skipped with the batch-timeout reason only if
\* its own analysis had started in a pool process before the deadline; an
\* item whose task still waits in the pool's queue is not skipped for good.
C38_SkipOnlyIfStarted ==
    [][\A w \in Instances, i \in Tracks :
          ( /\ worker[w].pc = "collect"
            /\ Track'[i] /= Track[i]
            /\ Track'[i].analysisStatus = "skipped"
            /\ Track'[i].analysisError = ErrBatchTimeout ) =>
              \E k \in DOMAIN worker[w].futures :
                  /\ IdOf(worker[w].tracks[k]) = i
                  /\ worker[w].futures[k] = "running"
      ]_vars

\* C39: when the dispatcher returns from a batch, no Store write having
\* failed and the process not having crashed, every item the batch claimed
\* has left processing, also when the submit to the pool raises, when the
\* deadline fires and when the await of a future raises.
C39_NothingLeftProcessing ==
    [][\A w \in Instances :
          ( /\ worker[w].pc \in ClaimPcs \cup {"collect"}
            /\ worker'[w].pc \in {"drain", "cleanup"} ) =>
              LET claimed == IF worker[w].pc = "collect" THEN Ids(worker[w].tracks)
                             ELSE valid_ids(Track, Ids(worker[w].tracks))
              IN  \A i \in claimed : Track'[i].analysisStatus /= "processing"
      ]_vars

\* C40: the maintenance passes touch only the rows they match.  The stale
\* reclaim changes status and updatedAt of processing rows older than the
\* window; the retry pass changes status, error and updatedAt of failed rows
\* under the ceiling; neither changes a retry count, and every other row is
\* left as it is.
C40_MaintenanceFrame ==
    [][\A w \in Instances, i \in Tracks :
          /\ (worker[w].pc = "cleanup" /\ worker'[w].pc = "retry" /\ Track'[i] /= Track[i]) =>
                /\ OlderThanWindow(Track[i])
                /\ Track'[i] = [Track[i] EXCEPT !.analysisStatus = "pending", !.age = 0]
          /\ (RetryPassBy(w) /\ Track'[i] /= Track[i]) =>
                /\ Status(i) = "failed" /\ RetryCount(i) < MAX_RETRIES
                /\ Track'[i] = [Track[i] EXCEPT !.analysisStatus = "pending",
                                                !.analysisError = NULL, !.age = 0]
      ]_vars

\* A row that was charged a failure is pending again: a maintenance pass
\* has returned it and has kept its retry count.
C40_Witness ==
    \E i \in Tracks :
        /\ Status(i) = "pending"
        /\ RetryCount(i) >= 1
        /\ Track[i].analysisError = NULL

====
